---- MODULE Spec2Model ----
(***************************************************************************)
(* SmartRecruitAI: the /analyze request handler (main.py), the text        *)
(* extractor (resume_parser.py) and the recommender (ai_client.py).        *)
(*                                                                         *)
(* A text is a sequence of one-character strings.  Scores are integers in  *)
(* hundredths (0.7 is 70).  An uploaded file is its bytes together with    *)
(* what the PDF and DOCX libraries find in those bytes.  The assistant's   *)
(* reply is a sequence of JSON lexemes.                                    *)
(***************************************************************************)
EXTENDS Integers, Sequences, FiniteSets, TLC

\* ------------------------------------------------------------------------
\* Bounds of the input sets
\* ------------------------------------------------------------------------
MaxWords == 2      \* words per generated resume text
MaxSims == 2       \* distinct similarity values the embedding model may give

\* ------------------------------------------------------------------------
\* Characters and strings
\* ------------------------------------------------------------------------
UpperCase == <<"A","B","C","D","E","F","G","H","I","J","K","L","M",
               "N","O","P","Q","R","S","T","U","V","W","X","Y","Z">>
LowerCase == <<"a","b","c","d","e","f","g","h","i","j","k","l","m",
               "n","o","p","q","r","s","t","u","v","w","x","y","z">>

\* characters in ascending code point order (what sorted() compares by)
CharTable == <<"\n", " ", ",", ".", "/">> \o UpperCase \o <<"\\", "_">> \o LowerCase

CodePoint(c) == CHOOSE i \in DOMAIN CharTable : CharTable[i] = c

\* str.lower() on one character
LowerChar(c) ==
    IF \E i \in DOMAIN UpperCase : UpperCase[i] = c
    THEN LowerCase[CHOOSE i \in DOMAIN UpperCase : UpperCase[i] = c]
    ELSE c

\* str.lower()
Lower(s) == [i \in DOMAIN s |-> LowerChar(s[i])]

Whitespace == {" ", "\n"}

\* str.strip()
RECURSIVE LStrip(_)
LStrip(s) == IF s # <<>> /\ Head(s) \in Whitespace THEN LStrip(Tail(s)) ELSE s
RECURSIVE RStrip(_)
RStrip(s) ==
    IF s # <<>> /\ s[Len(s)] \in Whitespace THEN RStrip(SubSeq(s, 1, Len(s) - 1)) ELSE s
Strip(s) == RStrip(LStrip(s))

\* str.endswith()
EndsWith(s, suffix) ==
    /\ Len(s) >= Len(suffix)
    /\ SubSeq(s, Len(s) - Len(suffix) + 1, Len(s)) = suffix

\* sep.join(parts)
RECURSIVE Join(_, _)
Join(parts, sep) ==
    IF parts = <<>> THEN <<>>
    ELSE IF Len(parts) = 1 THEN parts[1]
    ELSE parts[1] \o sep \o Join(Tail(parts), sep)

\* s < t for str: lexicographic by code point
RECURSIVE StrLess(_, _)
StrLess(s, t) ==
    IF t = <<>> THEN FALSE
    ELSE IF s = <<>> THEN TRUE
    ELSE IF Head(s) = Head(t) THEN StrLess(Tail(s), Tail(t))
    ELSE CodePoint(Head(s)) < CodePoint(Head(t))

\* sorted(S) for a set of strings
RECURSIVE Sorted(_)
Sorted(S) ==
    IF S = {} THEN <<>>
    ELSE LET m == CHOOSE x \in S : \A y \in S \ {x} : StrLess(x, y)
         IN  <<m>> \o Sorted(S \ {m})

\* seq[:n]
Take(seq, n) == SubSeq(seq, 1, IF Len(seq) < n THEN Len(seq) ELSE n)

Range(seq) == {seq[i] : i \in DOMAIN seq}

\* ------------------------------------------------------------------------
\* ai_client.py: heuristic_recommend
\* ------------------------------------------------------------------------

\* the end of the run of "w" that starts at position i
RECURSIVE RunEnd(_, _)
RunEnd(s, i) == IF i < Len(s) /\ s[i + 1] = "w" THEN RunEnd(s, i + 1) ELSE i

\* re.findall(r"\\w+", s): in a raw string the pattern is a literal backslash
\* followed by one or more "w"; matches are leftmost, greedy, non-overlapping
RECURSIVE FindAllFrom(_, _)
FindAllFrom(s, i) ==
    IF i > Len(s) THEN <<>>
    ELSE IF s[i] = "\\" /\ i < Len(s) /\ s[i + 1] = "w"
         THEN <<SubSeq(s, i, RunEnd(s, i + 1))>> \o FindAllFrom(s, RunEnd(s, i + 1) + 1)
         ELSE FindAllFrom(s, i + 1)

FindAll(s) == FindAllFrom(s, 1)

python == <<"p","y","t","h","o","n">>
django == <<"d","j","a","n","g","o">>
flask == <<"f","l","a","s","k">>
react == <<"r","e","a","c","t">>
javascript == <<"j","a","v","a","s","c","r","i","p","t">>
vue == <<"v","u","e">>
frontend == <<"f","r","o","n","t","e","n","d">>
aws == <<"a","w","s">>
azure == <<"a","z","u","r","e">>
gcp == <<"g","c","p">>
cloud == <<"c","l","o","u","d">>
devops == <<"d","e","v","o","p","s">>
machine == <<"m","a","c","h","i","n","e">>
learning == <<"l","e","a","r","n","i","n","g">>
nlp == <<"n","l","p">>
data == <<"d","a","t","a">>
tensorflow == <<"t","e","n","s","o","r","f","l","o","w">>
pytorch == <<"p","y","t","o","r","c","h">>

BackendTitle == "Backend Engineer / Python Developer"
FrontendTitle == "Frontend Engineer / React Developer"
CloudTitle == "Cloud Engineer / DevOps Engineer"
MLTitle == "Machine Learning Engineer / Data Scientist"
GeneralTitle == "Software Engineer (General)"

\* the four keyword buckets, in the order the code tests them
Buckets == <<
    [keys |-> {python, django, flask}, title |-> BackendTitle],
    [keys |-> {react, javascript, vue, frontend}, title |-> FrontendTitle],
    [keys |-> {aws, azure, gcp, cloud, devops}, title |-> CloudTitle],
    [keys |-> {machine, learning, nlp, data, tensorflow, pytorch}, title |-> MLTitle] >>

\* titles.append(...) for each bucket with a trigger in keywords, from bucket b on
RECURSIVE MatchedTitles(_, _)
MatchedTitles(keywords, b) ==
    IF b > Len(Buckets) THEN <<>>
    ELSE (IF Buckets[b].keys \cap keywords # {} THEN <<Buckets[b].title>> ELSE <<>>)
         \o MatchedTitles(keywords, b + 1)

\* the title list: the matched buckets' titles, or the single fallback title
NoFallbackTitles(keywords) == MatchedTitles(keywords, 1)
HeuristicTitles(keywords) ==
    IF MatchedTitles(keywords, 1) = <<>> THEN <<GeneralTitle>>
    ELSE MatchedTitles(keywords, 1)

\* round(0.7 + 0.2 * (i / max(1, n-1)), 2) in hundredths, i counted from 0
HeuristicScore(i, n) ==
    LET d == IF n - 1 > 1 THEN n - 1 ELSE 1
    IN  (7000 + (2000 * i) \div d + 50) \div 100

HighlightLimit == 20
HighlightMinLen == 3
HighlightPrefix == "Detected skills sample: "

\* 'Detected skills sample: ' + ', '.join(sorted(w for w in keywords if len(w) > 3)[:20])
\* the prefix is kept as one element, the joined tokens follow character by character
HeuristicHighlight(keywords) ==
    <<HighlightPrefix>> \o
    Join(Take(Sorted({w \in keywords : Len(w) > HighlightMinLen}), HighlightLimit),
         <<",", " ">>)

HeuristicExplanation ==
    "Heuristic fallback used. Set OPENAI_API_KEY to enable richer LLM output."

heuristic_recommend(text) ==
    LET tokens == FindAll(Lower(text))
        keywords == Range(tokens)
        titles == HeuristicTitles(keywords)
    IN  [recommended_titles |-> titles,
         confidence_scores |->
            [t \in Range(titles) |->
                HeuristicScore((CHOOSE i \in DOMAIN titles : titles[i] = t) - 1, Len(titles))],
         highlights |-> <<HeuristicHighlight(keywords)>>,
         explanation |-> HeuristicExplanation]

\* ------------------------------------------------------------------------
\* ai_client.py: _try_parse_json and the reply of the chat endpoint
\* ------------------------------------------------------------------------
\* Lexemes of a reply: "{" and "}", "x" (prose, no JSON), "n" (a JSON value
\* that is no object: a number, a string, a list), and the members of an
\* object, each a "key": value pair with the commas between members implied:
\*   "t"  "recommended_titles": ["Data Analyst"]
\*   "c"  "confidence_scores": {"Data Analyst": 0.9}
\*   "d"  "confidence_scores": {"Data Engineer": 0.5}
\*   "h"  "highlights": []
\*   "e"  "explanation": "llm"
MemberLexemes == {"t", "c", "d", "h", "e"}

MemberKey(m) ==
    CASE m = "t" -> "recommended_titles"
      [] m \in {"c", "d"} -> "confidence_scores"
      [] m = "h" -> "highlights"
      [] m = "e" -> "explanation"

MemberValue(m) ==
    CASE m = "t" -> <<"Data Analyst">>
      [] m = "c" -> [k \in {"Data Analyst"} |-> 90]
      [] m = "d" -> [k \in {"Data Engineer"} |-> 50]
      [] m = "h" -> <<>>
      [] m = "e" -> "llm"

\* the dict json.loads builds from the members: a repeated key keeps its last value
ObjectOf(members) ==
    [k \in {MemberKey(members[i]) : i \in DOMAIN members} |->
        MemberValue(members[CHOOSE i \in DOMAIN members :
            /\ MemberKey(members[i]) = k
            /\ \A j \in DOMAIN members : MemberKey(members[j]) = k => j <= i])]

NoObject == [k \in {} |-> 0]

\* json.loads(lex): kind "object" or "scalar", or "error" when it raises
JsonLoads(lex) ==
    IF lex = <<"n">> THEN [kind |-> "scalar", obj |-> NoObject]
    ELSE IF /\ Len(lex) >= 2
            /\ lex[1] = "{"
            /\ lex[Len(lex)] = "}"
            /\ \A i \in 2..(Len(lex) - 1) : lex[i] \in MemberLexemes
         THEN [kind |-> "object", obj |-> ObjectOf(SubSeq(lex, 2, Len(lex) - 1))]
         ELSE [kind |-> "error", obj |-> NoObject]

FirstIndex(lex, c) ==
    IF \E i \in DOMAIN lex : lex[i] = c
    THEN CHOOSE i \in DOMAIN lex : lex[i] = c /\ \A j \in 1..(i - 1) : lex[j] # c
    ELSE 0

LastIndex(lex, c) ==
    IF \E i \in DOMAIN lex : lex[i] = c
    THEN CHOOSE i \in DOMAIN lex : lex[i] = c /\ \A j \in (i + 1)..Len(lex) : lex[j] # c
    ELSE 0

\* re.search(r"\{.*\}", text, flags=re.S): the span from the first "{" to the
\* last "}" after it; found is FALSE when there is no match
LazySpan(lex) ==
    LET a == FirstIndex(lex, "{")
        b == IF a = 0 THEN 0
             ELSE IF \E i \in (a + 1)..Len(lex) : lex[i] = "}"
                  THEN CHOOSE i \in (a + 1)..Len(lex) :
                          lex[i] = "}" /\ \A j \in (a + 1)..(i - 1) : lex[j] # "}"
                  ELSE 0
    IN  [found |-> a > 0 /\ b > a, span |-> IF a > 0 /\ b > a THEN SubSeq(lex, a, b) ELSE <<>>]
GreedySpan(lex) ==
    LET a == FirstIndex(lex, "{")
        b == LastIndex(lex, "}")
    IN  [found |-> a > 0 /\ b > a, span |-> IF a > 0 /\ b > a THEN SubSeq(lex, a, b) ELSE <<>>]

\* _try_parse_json(msg).  msg.isStr is FALSE for a content that is no string
\* (null): json.loads raises TypeError, which is caught, and re.search then
\* raises TypeError inside the handler, which leaves the function.
\* kind: "object", "scalar", "none" (the function returned None) or "raised"
try_parse_json(msg) ==
    IF ~msg.isStr THEN [kind |-> "raised", obj |-> NoObject]
    ELSE LET whole == JsonLoads(msg.lex)
             m == GreedySpan(msg.lex)
         IN  IF whole.kind # "error" THEN whole
             ELSE IF m.found /\ JsonLoads(m.span).kind # "error" THEN JsonLoads(m.span)
             ELSE [kind |-> "none", obj |-> NoObject]

RequiredKeys == {"recommended_titles", "confidence_scores", "highlights", "explanation"}

\* the loop over the required keys: no key is missing from parsed
ThreeKeysPresent(obj) == {"recommended_titles", "confidence_scores", "highlights"} \subseteq DOMAIN obj
HasRequiredKeys(obj) == RequiredKeys \subseteq DOMAIN obj

\* ------------------------------------------------------------------------
\* ai_client.py: call_openai_chat and the remote branch of recommend_jobs_from_text
\* ------------------------------------------------------------------------
\* What the endpoint does with the one POST: http is "connect_error",
\* "timeout", "status_error" (raise_for_status raises), "body_not_json"
\* (r.json() raises) or "ok"; shape says how far resp['choices'][0]['message']
\* ['content'] can be followed; content is the assistant's message.

\* call_openai_chat: raises unless the POST succeeds with a 2xx status and a JSON body
call_openai_chat(outcome) == [raised |-> outcome.http # "ok", resp |-> outcome]

\* resp['choices'][0]['message']['content'] raises KeyError or IndexError
ContentLookupRaises(resp) == resp.shape # "content"

\* `if OPENAI_API_KEY:` the credential is set and not empty
KeyUnset == "None"
KeyIsSet(key) == key # KeyUnset
UseRemote(key) == key # KeyUnset /\ key # ""

PromptLimit == 6000

\* the try block of the remote branch, given what the endpoint did
\* path: "remote" when the parsed reply is returned, "fallback" otherwise
RemoteBranch(text, outcome) ==
    LET call == call_openai_chat(outcome)
        fallback(logged) == [result |-> heuristic_recommend(text), path |-> "fallback",
                             logged |-> logged]
    IN  IF call.raised THEN fallback(TRUE)
        ELSE IF ContentLookupRaises(call.resp) THEN fallback(TRUE)
        ELSE LET parsed == try_parse_json(call.resp.content)
             IN  IF parsed.kind = "raised" THEN fallback(TRUE)
                 ELSE IF parsed.kind = "object" /\ DOMAIN parsed.obj # {}
                      THEN IF HasRequiredKeys(parsed.obj)
                           THEN [result |-> parsed.obj, path |-> "remote", logged |-> FALSE]
                           ELSE fallback(FALSE)
                      ELSE fallback(FALSE)

\* ------------------------------------------------------------------------
\* ai_client.py: the branch without a credential (heuristic, embedding rescoring)
\* ------------------------------------------------------------------------
\* 0.5 + 0.48 * ((raw - min_s) / (max_s - min_s + 1e-9)) rounded to hundredths;
\* the 1e-9 keeps the quotient just below the exact ratio, so a tie rounds down
NormScore(raw, mn, mx) ==
    IF mx = mn THEN 50
    ELSE 50 + ((48000 * (raw - mn)) \div (mx - mn) + 499) \div 1000

SeqMin(s) == CHOOSE v \in Range(s) : \A u \in Range(s) : v <= u
SeqMax(s) == CHOOSE v \in Range(s) : \A u \in Range(s) : v >= u

\* base['confidence_scores'] = scores, for similarities sims (one per title)
Rescore(base, sims) ==
    LET titles == base.recommended_titles
    IN  [base EXCEPT !.confidence_scores =
            [t \in Range(titles) |->
                NormScore(sims[CHOOSE i \in DOMAIN titles :
                                 titles[i] = t /\ \A j \in DOMAIN titles : titles[j] = t => j <= i],
                          SeqMin(sims), SeqMax(sims))]]

\* ------------------------------------------------------------------------
\* resume_parser.py
\* ------------------------------------------------------------------------
\* An uploaded file: bytes (characters, and "BAD" for a byte that is not
\* valid UTF-8), pdf (what PdfReader finds: valid is FALSE when it raises on
\* the bytes; each page gives text, None, or raises in extract_text()) and
\* docx (what Document finds: valid is FALSE when it raises on the bytes).
BadByte == "BAD"

PageText(page) == IF page.extract = "text" THEN page.text ELSE <<>>

\* the texts of the pages whose extract_text() does not raise
RECURSIVE PageTexts(_)
PageTexts(pages) ==
    IF pages = <<>> THEN <<>>
    ELSE (IF Head(pages).extract = "raises" THEN <<>> ELSE <<PageText(Head(pages))>>)
         \o PageTexts(Tail(pages))

\* extract_text_from_pdf: PdfReader(...) stands outside the per-page try
extract_text_from_pdf(contents) ==
    IF ~contents.pdf.valid THEN [raised |-> TRUE, text |-> <<>>]
    ELSE [raised |-> FALSE, text |-> Join(PageTexts(contents.pdf.pages), <<"\n">>)]

\* extract_text_from_docx: no try at all
extract_text_from_docx(contents) ==
    IF ~contents.docx.valid THEN [raised |-> TRUE, text |-> <<>>]
    ELSE [raised |-> FALSE, text |-> Join(contents.docx.paras, <<"\n">>)]

\* bytes.decode('utf-8', errors='ignore')
StrictDecode(bytes) == IF BadByte \in Range(bytes) THEN <<>> ELSE bytes
DecodeIgnore(bytes) == SelectSeq(bytes, LAMBDA b : b # BadByte)

DotPdf == <<".", "p", "d", "f">>
DotDocx == <<".", "d", "o", "c", "x">>
DotDoc == <<".", "d", "o", "c">>

\* the file name selects the PDF or the DOCX extraction
Recognized(filename) ==
    \/ EndsWith(Lower(filename), DotPdf)
    \/ EndsWith(Lower(filename), DotDocx)
    \/ EndsWith(Lower(filename), DotDoc)

extract_text(filename, contents) ==
    LET lower == Lower(filename)
    IN  IF EndsWith(lower, DotPdf) THEN extract_text_from_pdf(contents)
        ELSE IF EndsWith(lower, DotDocx) \/ EndsWith(lower, DotDoc)
             THEN extract_text_from_docx(contents)
             ELSE [raised |-> FALSE, text |-> DecodeIgnore(contents.bytes)]

\* ------------------------------------------------------------------------
\* Inputs
\* ------------------------------------------------------------------------
bsw1 == <<"\\", "w">>
bsw4 == <<"\\", "w", "w", "w", "w">>
Words == {python, react, aws, bsw1, bsw4}

\* "Experienced in Python, Flask, AWS and React"
Sentence ==
    <<"E","x","p","e","r","i","e","n","c","e","d"," ","i","n"," ",
      "P","y","t","h","o","n",","," ","F","l","a","s","k",","," ",
      "A","W","S"," ","a","n","d"," ","R","e","a","c","t">>

WordSeqs == UNION {[1..n -> Words] : n \in 0..MaxWords}
Texts == {Join(ws, <<" ">>) : ws \in WordSeqs} \cup {Sentence, <<" ">>, <<" ", "\n">>}

NoPdf == [valid |-> FALSE, pages |-> <<>>]
NoDocx == [valid |-> FALSE, paras |-> <<>>]

TextContents ==
    {[bytes |-> t, pdf |-> NoPdf, docx |-> NoDocx] : t \in Texts}
    \cup {[bytes |-> <<BadByte>> \o python \o <<BadByte>>, pdf |-> NoPdf, docx |-> NoDocx],
          [bytes |-> <<BadByte>>, pdf |-> NoPdf, docx |-> NoDocx]}

Pages == {[extract |-> "text", text |-> python],
          [extract |-> "text", text |-> bsw4],
          [extract |-> "none", text |-> <<>>],
          [extract |-> "raises", text |-> <<>>]}

PageSeqs == UNION {[1..n -> Pages] : n \in 0..2}

\* "%PDF" stands for the bytes of a PDF document, "PK" for those of a DOCX archive
PdfBytes == <<"%", "P", "D", "F", BadByte>>
DocxBytes == <<"P", "K", BadByte>>

DocContents ==
    {[bytes |-> PdfBytes, pdf |-> [valid |-> TRUE, pages |-> ps], docx |-> NoDocx] :
        ps \in PageSeqs}
    \cup {[bytes |-> DocxBytes, pdf |-> NoPdf, docx |-> [valid |-> TRUE, paras |-> ps]] :
            ps \in {<<>>, <<python>>, <<python, bsw4>>, <<<<>>>>}}
    \cup {[bytes |-> b, pdf |-> NoPdf, docx |-> NoDocx] : b \in {<<>>, python, <<BadByte>>}}

TxtName == <<"r", ".", "t", "x", "t">>
DocNames == {<<"r", ".", "p", "d", "f">>, <<"R", ".", "P", "D", "F">>,
             <<"r", ".", "d", "o", "c", "x">>, <<"r", ".", "d", "o", "c">>,
             <<"p", "d", "f">>}

Uploads ==
    {[filename |-> TxtName, contents |-> c] : c \in TextContents}
    \cup {[filename |-> f, contents |-> c] : f \in DocNames, c \in DocContents}

Keys == {KeyUnset, "", "sk-test"}

Affixes == {<<>>, <<"x">>, <<"{">>, <<"}">>}

\* the four members with one of them left out or none, the scores keyed by the
\* recommended title or by another one
FullMembers(scores) == <<"t", scores, "h", "e">>
Drop(seq, i) == [j \in 1..(Len(seq) - 1) |-> IF j < i THEN seq[j] ELSE seq[j + 1]]
Bodies ==
    {<<>>, <<"n">>}
    \cup {<<"{">> \o FullMembers(sc) \o <<"}">> : sc \in {"c", "d"}}
    \cup {<<"{">> \o Drop(FullMembers(sc), i) \o <<"}">> : sc \in {"c", "d"}, i \in 1..4}
    \cup {<<"{", "}">>}

Replies == {pre \o body \o post : pre \in Affixes, body \in Bodies, post \in Affixes}

NoMessage == [isStr |-> FALSE, lex |-> <<>>]

Outcomes ==
    {[http |-> h, shape |-> "none", content |-> NoMessage] :
        h \in {"connect_error", "timeout", "status_error", "body_not_json"}}
    \cup {[http |-> "ok", shape |-> sh, content |-> NoMessage] :
            sh \in {"no_choices", "empty_choices", "no_message", "no_content"}}
    \cup {[http |-> "ok", shape |-> "content", content |-> NoMessage]}
    \cup {[http |-> "ok", shape |-> "content", content |-> [isStr |-> TRUE, lex |-> r]] :
            r \in Replies}

NoOutcome == [http |-> "none", shape |-> "none", content |-> NoMessage]

SimValues == {10 * k : k \in 0..MaxSims}

\* ------------------------------------------------------------------------
\* main.py: the analyze handler, one request
\* ------------------------------------------------------------------------
VARIABLES
    caller,          \* "analyze": a request to the handler; "direct": a call of
                     \* recommend_jobs_from_text by another caller
    filename,        \* file.filename
    contents,        \* the uploaded file
    OPENAI_API_KEY,  \* the credential read from the environment at import
    ST_MODEL,        \* _ST_MODEL is not None
    pc,              \* "start", "read", "recommend", "await", "done"
    text,            \* the extracted text
    calls,           \* the arguments of the calls of recommend_jobs_from_text
    raisedAt,        \* where an exception was raised: "none", "read", "extract"
    prompt,          \* the resume part of the prompt sent to the endpoint
    httpCalls,       \* client.post calls made
    outcome,         \* what the endpoint did with the POST
    result,          \* what recommend_jobs_from_text returned
    path,            \* "none", "heuristic", "embedding", "remote", "fallback"
    logged,          \* logging.exception was called
    responses,       \* the responses the handler returned
    escaped          \* an exception left the handler

vars == <<caller, filename, contents, OPENAI_API_KEY, ST_MODEL, pc, text, calls, raisedAt, prompt,
          httpCalls, outcome, result, path, logged, responses, escaped>>

NoResult == NoObject

CouldNotExtract == "Could not extract text from the file. Try a PDF or DOCX."
InternalError == "Internal server error: "

ErrorPage(msg) == [template |-> "index.html", error |-> msg, result |-> NoResult]
ResultPage(res) == [template |-> "result.html", error |-> "", result |-> res]

\* `if not text.strip():`
NeverBlank(t) == FALSE
IsBlank(t) == Strip(t) = <<>>

\* the statements inside the handler's try block
TryFromExtract(stage) == stage \in {"extract", "recommend"}
InTry(stage) == stage \in {"read", "extract", "recommend"}

NoUpload == [bytes |-> <<>>, pdf |-> NoPdf, docx |-> NoDocx]

Init ==
    /\ \/ /\ caller = "analyze"
          /\ \E u \in Uploads : filename = u.filename /\ contents = u.contents
          /\ pc = "start"
          /\ text = <<>>
          /\ calls = <<>>
       \/ /\ caller = "direct"
          /\ filename = <<>>
          /\ contents = NoUpload
          /\ pc = "recommend"
          /\ text \in Texts
          /\ calls = <<text>>
    /\ OPENAI_API_KEY \in Keys
    /\ ST_MODEL \in BOOLEAN
    /\ raisedAt = "none"
    /\ prompt = <<>>
    /\ httpCalls = 0
    /\ outcome = NoOutcome
    /\ result = NoResult
    /\ path = "none"
    /\ logged = FALSE
    /\ responses = <<>>
    /\ escaped = FALSE

\* an exception raised at `stage`: `except Exception` answers with the error
\* page when the statement is inside the try block
Raise(stage) ==
    /\ pc' = "done"
    /\ raisedAt' = stage
    /\ IF InTry(stage)
       THEN responses' = Append(responses, ErrorPage(InternalError)) /\ escaped' = escaped
       ELSE responses' = responses /\ escaped' = TRUE

\* recommend_jobs_from_text returns res: the handler answers with the result page
Return(res) ==
    responses' = IF caller = "analyze" THEN Append(responses, ResultPage(res)) ELSE responses

\* contents = await file.read()
ReadOk ==
    /\ pc = "start"
    /\ pc' = "read"
    /\ UNCHANGED <<caller, calls, filename, contents, OPENAI_API_KEY, ST_MODEL, text, raisedAt, prompt,
                   httpCalls, outcome, result, path, logged, responses, escaped>>

ReadFails ==
    /\ pc = "start"
    /\ Raise("read")
    /\ UNCHANGED <<caller, calls, filename, contents, OPENAI_API_KEY, ST_MODEL, text, prompt,
                   httpCalls, outcome, result, path, logged>>

\* text = extract_text(file.filename, contents), the blank check, and the call
\* of recommend_jobs_from_text(text)
Extract ==
    /\ pc = "read"
    /\ LET r == extract_text(filename, contents)
       IN  /\ text' = r.text
           /\ IF r.raised THEN Raise("extract") /\ calls' = calls
              ELSE IF IsBlank(r.text)
                   THEN /\ responses' = Append(responses, ErrorPage(CouldNotExtract))
                        /\ pc' = "done"
                        /\ UNCHANGED <<calls, raisedAt, escaped>>
                   ELSE /\ pc' = "recommend"
                        /\ calls' = Append(calls, r.text)
                        /\ UNCHANGED <<raisedAt, responses, escaped>>
    /\ UNCHANGED <<caller, filename, contents, OPENAI_API_KEY, ST_MODEL, prompt, httpCalls, outcome,
                   result, path, logged>>

\* recommend_jobs_from_text with a credential: the prompt, and the one POST
RecommendSend ==
    /\ pc = "recommend"
    /\ UseRemote(OPENAI_API_KEY)
    /\ prompt' = Take(text, PromptLimit)
    /\ httpCalls' = httpCalls + 1
    /\ pc' = "await"
    /\ UNCHANGED <<caller, calls, filename, contents, OPENAI_API_KEY, ST_MODEL, text, raisedAt, outcome,
                   result, path, logged, responses, escaped>>

\* the POST completes: the rest of the try block, and the handler's result page
HttpReply ==
    /\ pc = "await"
    /\ \E o \in Outcomes :
          LET r == RemoteBranch(text, o)
          IN  /\ outcome' = o
              /\ result' = r.result
              /\ path' = r.path
              /\ logged' = r.logged
              /\ Return(r.result)
    /\ pc' = "done"
    /\ UNCHANGED <<caller, calls, filename, contents, OPENAI_API_KEY, ST_MODEL, text, raisedAt, prompt,
                   httpCalls, escaped>>

\* recommend_jobs_from_text without a credential and without an embedding model
RecommendHeuristic ==
    /\ pc = "recommend"
    /\ ~UseRemote(OPENAI_API_KEY)
    /\ ~ST_MODEL
    /\ result' = heuristic_recommend(text)
    /\ path' = "heuristic"
    /\ Return(result')
    /\ pc' = "done"
    /\ UNCHANGED <<caller, calls, filename, contents, OPENAI_API_KEY, ST_MODEL, text, raisedAt, prompt,
                   httpCalls, outcome, logged, escaped>>

\* the same with an embedding model: the scores are replaced by normalized similarities
RecommendEmbedding ==
    /\ pc = "recommend"
    /\ ~UseRemote(OPENAI_API_KEY)
    /\ ST_MODEL
    /\ LET base == heuristic_recommend(text)
       IN  \E sims \in [DOMAIN base.recommended_titles -> SimValues] :
              /\ result' = Rescore(base, sims)
              /\ path' = "embedding"
    /\ Return(result')
    /\ pc' = "done"
    /\ UNCHANGED <<caller, calls, filename, contents, OPENAI_API_KEY, ST_MODEL, text, raisedAt, prompt,
                   httpCalls, outcome, logged, escaped>>

\* the embedding step raises: `except Exception: pass` keeps the heuristic scores
EmbeddingFails ==
    /\ pc = "recommend"
    /\ ~UseRemote(OPENAI_API_KEY)
    /\ ST_MODEL
    /\ result' = heuristic_recommend(text)
    /\ path' = "heuristic"
    /\ Return(result')
    /\ pc' = "done"
    /\ UNCHANGED <<caller, calls, filename, contents, OPENAI_API_KEY, ST_MODEL, text, raisedAt, prompt,
                   httpCalls, outcome, logged, escaped>>

Next ==
    \/ ReadOk
    \/ ReadFails
    \/ Extract
    \/ RecommendSend
    \/ HttpReply
    \/ RecommendHeuristic
    \/ RecommendEmbedding
    \/ EmbeddingFails

Spec == Init /\ [][Next]_vars

\* ------------------------------------------------------------------------
\* Properties
\* ------------------------------------------------------------------------
\* recommend_jobs_from_text has returned
Returned == path # "none"

\* the result came out of heuristic_recommend unchanged
FromHeuristic == path \in {"heuristic", "fallback"}

\* the word tokens of a text as the specification defines them: the maximal
\* runs of letters and underscores of the lower-cased text
WordChars == Range(LowerCase) \cup Range(UpperCase) \cup {"_"}

RECURSIVE WordEnd(_, _)
WordEnd(s, i) == IF i < Len(s) /\ s[i + 1] \in WordChars THEN WordEnd(s, i + 1) ELSE i

RECURSIVE WordsFrom(_, _)
WordsFrom(s, i) ==
    IF i > Len(s) THEN {}
    ELSE IF s[i] \in WordChars
         THEN {SubSeq(s, i, WordEnd(s, i))} \cup WordsFrom(s, WordEnd(s, i) + 1)
         ELSE WordsFrom(s, i + 1)

WordTokens(t) == WordsFrom(Lower(t), 1)

\* the buckets a text matches, by its word tokens
MatchedBuckets(t) == {b \in DOMAIN Buckets : Buckets[b].keys \cap WordTokens(t) # {}}

\* the reply as the claim has it parsed: the whole reply, and only if that
\* fails the span from the first "{" to the last "}"
ReplyParse(lex) ==
    IF JsonLoads(lex).kind # "error" THEN JsonLoads(lex)
    ELSE IF FirstIndex(lex, "{") > 0 /\ LastIndex(lex, "}") > FirstIndex(lex, "{")
         THEN JsonLoads(SubSeq(lex, FirstIndex(lex, "{"), LastIndex(lex, "}")))
         ELSE [kind |-> "error", obj |-> NoObject]

\* the POST succeeded and the response carries a string reply
GotReply == outcome.http = "ok" /\ outcome.shape = "content" /\ outcome.content.isStr

\* the reply parses to an object with the four required keys
ValidReply == 
    /\ GotReply
    /\ ReplyParse(outcome.content.lex).kind = "object"
    /\ RequiredKeys \subseteq DOMAIN ReplyParse(outcome.content.lex).obj

\* C1: with a credential configured, whenever the remote call fails (the HTTP
\* call raises, times out or returns a non-2xx status, the response lacks
\* choices[0].message.content, the reply is no parseable JSON, the parsed value
\* is no object, or the object lacks a required key), recommend_jobs_from_text
\* raises nothing and returns exactly heuristic_recommend of the same text.
C1_FailureFallsBack ==
    (pc = "done" /\ httpCalls > 0 /\ ~ValidReply)
        => /\ result = heuristic_recommend(text)
           /\ ~escaped
           /\ (caller = "analyze" => responses = <<ResultPage(heuristic_recommend(text))>>)

C1_Witness ==
    /\ pc = "done"
    /\ GotReply
    /\ ReplyParse(outcome.content.lex).kind = "object"
    /\ DOMAIN ReplyParse(outcome.content.lex).obj =
          {"recommended_titles", "confidence_scores", "highlights"}
    /\ result = heuristic_recommend(text)
    /\ text = <<>>

\* C2: one call of recommend_jobs_from_text makes exactly one HTTP request when
\* the credential is non-empty and none when no credential is configured; there
\* is never a second request.
C2_OneRequest ==
    /\ httpCalls <= 1
    /\ Returned =>
          httpCalls = (IF OPENAI_API_KEY \notin {KeyUnset, ""} THEN 1 ELSE 0)

C2_Witness ==
    /\ Returned
    /\ OPENAI_API_KEY = "sk-test"
    /\ outcome.http = "timeout"
    /\ httpCalls = 1

\* C3: on a successful HTTP response the parsed reply object is returned
\* verbatim exactly when the reply parses (whole reply first, else the greedy
\* span from the first "{" to the last "}") to an object with all four required
\* keys; in every other case the heuristic result is returned.
C3_VerbatimIffValid ==
    (pc = "done" /\ GotReply)
        => IF ValidReply
           THEN result = ReplyParse(outcome.content.lex).obj /\ path = "remote"
           ELSE result = heuristic_recommend(text) /\ path = "fallback"

C3_Witness ==
    /\ pc = "done"
    /\ GotReply
    /\ JsonLoads(outcome.content.lex).kind = "error"
    /\ ValidReply
    /\ result = ReplyParse(outcome.content.lex).obj

\* C4: in every result recommend_jobs_from_text returns (heuristic, embedding
\* rescored or remote) the keys of confidence_scores are exactly the entries of
\* recommended_titles.
C4_ScoreKeysAreTitles ==
    Returned => DOMAIN result.confidence_scores = Range(result.recommended_titles)

\* C5: for a text with the word "python" and no token of the other three
\* buckets, heuristic_recommend returns exactly the Backend title, scored 0.7.
C5_PythonOnly ==
    (FromHeuristic /\ python \in WordTokens(text) /\ MatchedBuckets(text) = {1})
        => /\ result.recommended_titles = <<BackendTitle>>
           /\ result.confidence_scores = [t \in {BackendTitle} |-> 70]

\* C6: for a text with tokens of two or more buckets, heuristic_recommend lists
\* one title per matched bucket in bucket order, with scores strictly increasing
\* from 0.7 for the first title to 0.9 for the last; the text "Experienced in
\* Python, Flask, AWS and React" gets the Backend, Frontend and Cloud titles
\* scored 0.7, 0.8, 0.9.
C6_BucketOrder ==
    (FromHeuristic /\ Cardinality(MatchedBuckets(text)) >= 2)
        => LET titles == result.recommended_titles
               scores == result.confidence_scores
           IN  /\ Len(titles) = Cardinality(MatchedBuckets(text))
               /\ \A i \in DOMAIN titles :
                     /\ \E b \in MatchedBuckets(text) : titles[i] = Buckets[b].title
                     /\ \A j \in DOMAIN titles :
                           i < j => \E b, c \in MatchedBuckets(text) :
                                       /\ b < c
                                       /\ titles[i] = Buckets[b].title
                                       /\ titles[j] = Buckets[c].title
                                       /\ scores[titles[i]] < scores[titles[j]]
               /\ scores[titles[1]] = 70
               /\ scores[titles[Len(titles)]] = 90
               /\ text = Sentence =>
                     /\ titles = <<BackendTitle, FrontendTitle, CloudTitle>>
                     /\ scores = (BackendTitle :> 70 @@ FrontendTitle :> 80 @@ CloudTitle :> 90)

\* C7: for a text that matches none of the four buckets, the empty text
\* included, heuristic_recommend returns exactly the title "Software Engineer
\* (General)", scored 0.7; its title list is never empty.
C7_GeneralFallback ==
    FromHeuristic =>
        /\ result.recommended_titles # <<>>
        /\ MatchedBuckets(text) = {} =>
              /\ result.recommended_titles = <<GeneralTitle>>
              /\ result.confidence_scores = [t \in {GeneralTitle} |-> 70]

C7_Witness ==
    /\ path = "heuristic"
    /\ text = <<>>
    /\ result.recommended_titles = <<GeneralTitle>>

\* C8: extract_text raises nothing for any content under a recognized file
\* name (.pdf, .docx, .doc), malformed documents included.
C8_ExtractNeverRaises == Recognized(filename) => raisedAt # "extract"

\* C9 as claimed: an upload with empty content yields the empty text, reaches
\* the orchestrator and is answered with a result whose title is the fallback.
C9_EmptyUploadRecommended ==
    (caller = "analyze" /\ pc = "done" /\ raisedAt # "read" /\ contents.bytes = <<>>)
        => /\ text = <<>>
           /\ Returned
           /\ result.recommended_titles = <<GeneralTitle>>
           /\ responses = <<ResultPage(result)>>

\* C9 amended: an upload with empty content under a file name other than .pdf,
\* .docx, .doc yields the empty text, and the handler answers with the "Could
\* not extract text" error page without calling the orchestrator (no result, no
\* HTTP request); the orchestrator called directly with the empty text returns,
\* unless a remote reply is accepted, a result with the fallback title alone.
C9_EmptyUploadRejected ==
    /\ (caller = "analyze" /\ pc = "done" /\ raisedAt # "read"
            /\ contents.bytes = <<>> /\ ~Recognized(filename))
          => /\ text = <<>>
             /\ responses = <<ErrorPage(CouldNotExtract)>>
             /\ ~Returned
             /\ result = NoResult
             /\ httpCalls = 0
    /\ (caller = "direct" /\ text = <<>> /\ Returned /\ path # "remote")
          => result.recommended_titles = <<GeneralTitle>>

C9_Witness ==
    /\ caller = "analyze"
    /\ pc = "done"
    /\ raisedAt = "none"
    /\ contents.bytes = <<>>
    /\ filename = TxtName
    /\ responses = <<ErrorPage(CouldNotExtract)>>

\* C10: every exception raised while analyze processes an upload is caught in
\* the handler and answered with an error page carrying a message; no exception
\* leaves the handler, and every request ends with exactly one response.
C10_HandlerCatchesAll ==
    /\ ~escaped
    /\ Len(responses) <= 1
    /\ (caller = "analyze" /\ pc = "done") => Len(responses) = 1
    /\ (caller = "analyze" /\ raisedAt # "none") => responses = <<ErrorPage(InternalError)>>

C10_Witness ==
    /\ caller = "analyze"
    /\ pc = "done"
    /\ raisedAt = "read"
    /\ responses = <<ErrorPage(InternalError)>>

\* the characters of an upload's bytes, the bytes that are no UTF-8 left out
DecodedContent == SelectSeq(contents.bytes, LAMBDA b : b # BadByte)

\* a plain-text upload: the file name ends in none of .pdf, .docx, .doc
PlainTextUpload == caller = "analyze" /\ ~Recognized(filename)

\* C11: for an uploaded plain-text file whose decoded content is not blank, the
\* analyze handler calls the recommender exactly once, with the extracted text,
\* and answers with the result page carrying the recommender's result, never
\* with an error page, with or without a credential.
C11_TextUploadGetsResult ==
    /\ Len(calls) <= 1
    /\ (PlainTextUpload /\ raisedAt # "read" /\ Strip(DecodedContent) # <<>>) =>
          /\ \A i \in DOMAIN responses : responses[i].template = "result.html"
          /\ pc = "done" =>
                /\ text = DecodedContent
                /\ calls = <<DecodedContent>>
                /\ Returned
                /\ responses = <<ResultPage(result)>>

C11_Witness ==
    /\ PlainTextUpload
    /\ pc = "done"
    /\ BadByte \in Range(contents.bytes)
    /\ calls = <<python>>
    /\ OPENAI_API_KEY = "sk-test"
    /\ responses = <<ResultPage(result)>>

\* the parts of a string between the separators ", " (no part for the empty string)
RECURSIVE SplitFrom(_, _, _)
SplitFrom(s, i, part) ==
    IF i > Len(s) THEN <<part>>
    ELSE IF s[i] = "," /\ i < Len(s) /\ s[i + 1] = " "
         THEN <<part>> \o SplitFrom(s, i + 2, <<>>)
         ELSE SplitFrom(s, i + 1, Append(part, s[i]))

SplitTokens(s) == IF s = <<>> THEN <<>> ELSE SplitFrom(s, 1, <<>>)

\* the word tokens of a text that are longer than 3 characters
QualifyingTokens(t) == {w \in WordTokens(t) : Len(w) > 3}

\* C12: the single highlight of heuristic_recommend is "Detected skills sample: "
\* followed by at most 20 comma-separated tokens, pairwise distinct, each longer
\* than 3 characters, in ascending alphabetical order: the first 20 of the
\* sorted qualifying tokens of the text.
C12_HighlightTokens ==
    FromHeuristic =>
        /\ Len(result.highlights) = 1
        /\ Head(result.highlights[1]) = HighlightPrefix
        /\ LET shown == SplitTokens(Tail(result.highlights[1]))
               all == QualifyingTokens(text)
           IN  /\ Len(shown) <= 20
               /\ \A i \in DOMAIN shown : Len(shown[i]) > 3
               /\ \A i, j \in DOMAIN shown : i < j => StrLess(shown[i], shown[j])
               /\ Range(shown) \subseteq all
               /\ Len(shown) = (IF Cardinality(all) < 20 THEN Cardinality(all) ELSE 20)
               /\ \A w \in all \ Range(shown) : \A i \in DOMAIN shown : StrLess(shown[i], w)

====
